---- MODULE Spec2Model ----
(***************************************************************************)
(* Offline synchronisation of the purchase-tracking backend:               *)
(* POST /api/sync/push, GET /api/sync/pull, GET /api/sync/status and the   *)
(* SyncLog audit table (src/src/routes/sync.js); the transaction           *)
(* lifecycle of src/src/routes/transactions.js (create, PATCH, close, add  *)
(* advance, add delivery) and calculateBalances (src/unnamed/part_000);    *)
(* over the Provider, Transaction, Advance, Delivery, Expense and SyncLog  *)
(* tables of the schema the routes are written against                     *)
(* (src/unnamed/part_002).                                                 *)
(*                                                                         *)
(* Every `await prisma...` of a handler is a suspension point, so a        *)
(* handler is a process: one action per storage call, sequenced by the     *)
(* request's pc.  The records of a batch are drawn when the loop reaches   *)
(* them, except for a batch that the client will send twice, which is      *)
(* fixed when it is first sent.                                            *)
(*   Spec      one request at a time: pushes, with storage faults in       *)
(*             every call                                                  *)
(*   SpecRetry one request at a time: a batch is pushed and then sent      *)
(*             once more                                                   *)
(*   SpecSync  one request at a time: pushes and pulls, the server clock   *)
(*             and general expenses, storage faults in the pull and in     *)
(*             the catch                                                   *)
(*   SpecConc  two pushes side by side on an existing provider and an      *)
(*             existing transaction                                        *)
(*   SpecOps   two requests side by side on /api/transactions, with        *)
(*             storage faults in every call                                *)
(*   SpecClosed    one request at a time: transactions are created,        *)
(*             closed and pushed with their totalAmount                    *)
(*   SpecTotals    one request at a time: PATCH of quantity and unit       *)
(*             price, advances and the detail read                         *)
(*   SpecDelta     one device pushes while another pulls                   *)
(*   SpecBalances  calls of calculateBalances on bounded inputs            *)
(*   SpecStatus    syncs that end, and reads of the sync status            *)
(* A row keeps one column for each group of columns that push treats       *)
(* alike: name for the provider columns that create and update both copy,  *)
(* status for those of a transaction, transactionDate for the transaction  *)
(* columns that only create copies; totalAmount for the columns PATCH      *)
(* writes.                                                                 *)
(***************************************************************************)
EXTENDS Integers, Sequences, FiniteSets, TLC

\* ---------------------------------------------------------------- bounds
MaxTime == 2        \* server clock and client timestamps range over 0..MaxTime
MaxBatch == 1       \* records of one collection of one push
MaxWork == 4        \* requests received plus records and checkpoints sent
MaxMoves == 2       \* advances, and deliveries, handed to calculateBalances
MaxLogs == 22       \* rows of the SyncLog table

\* ------------------------------------------------------------ value sets
Users == {"u1", "u2"}
ProviderIds == {"p1"}
TxIds == {"t1"}
Names == {"a", "b"}
Statuses == {"ACTIVE", "CLOSED"}
Dates == {1, 2}
Times == 0..MaxTime
Slots == {1, 2}

\* new Date(x).getTime() of a value that does not parse is NaN
NaN == -1
\* req.query.lastSync when the parameter is omitted
Omitted == -2
\* a lookup that found nothing, a field that is not set
NULL == [null |-> TRUE]
\* SQL NULL in a timestamp column, in an id column
NullTime == -3
\* totalAmount DOUBLE PRECISION, nullable
NullAmount == -4
NullId == "null"

\* new Date(w): a parsable client timestamp keeps its millisecond value,
\* anything else becomes Invalid Date
NewDate(w) == IF w \in Times THEN w ELSE NaN

\* a > b on two Date objects: false as soon as one side is Invalid Date
DateGT(a, b) == a # NaN /\ b # NaN /\ a > b

\* ---------------------------------------------------------------- state
VARIABLES
    providers,      \* Provider table: id -> row
    transactions,   \* Transaction table: id -> row
    expenses,       \* Expense table: id -> row
    advances,       \* Advance table, in insertion order
    deliveries,     \* Delivery table, in insertion order
    syncLogs,       \* SyncLog table, in insertion order
    now,            \* server clock
    reqs,           \* the request each slot is handling, or handled last
    spent           \* requests received plus records and checkpoints sent

vars == <<providers, transactions, expenses, advances, deliveries,
          syncLogs, now, reqs, spent>>

\* A submitted provider: name stands for the copied columns
\* name, email, phone, address, notes.
ProviderWire == [id : ProviderIds, name : Names,
                 createdAt : {1}, updatedAt : Times \cup {NaN}]

\* A submitted transaction: status stands for the columns description,
\* quantity, unitPrice, totalAmount, status; transactionDate for
\* contractNumber, providerId, productServiceId, transactionDate.
TxWire == [id : TxIds, status : Statuses, transactionDate : Dates,
           createdAt : {1}, updatedAt : Times]

Wire(coll) == IF coll = "providers" THEN ProviderWire ELSE TxWire

ZeroCounts == [created |-> 0, updated |-> 0, errors |-> <<>>]
ZeroResults == [transactions |-> ZeroCounts, providers |-> ZeroCounts,
                expenses |-> ZeroCounts]
NoneYet == [transactions |-> 0, providers |-> 0]

Idle == [pc |-> "idle"]

\* a lookup that never finds the record
FindFirst_Miss(table, id, user) == NULL

\* prisma.X.findFirst({ where: { id, userId } })
FindFirst(table, id, user) ==
    IF id \in DOMAIN table /\ table[id].userId = user THEN table[id] ELSE NULL

\* table with row id set to row
Put(table, id, row) ==
    [k \in DOMAIN table \cup {id} |-> IF k = id THEN row ELSE table[k]]

\* the row with the columns of data replaced
Merge(row, data) ==
    [k \in DOMAIN row |-> IF k \in DOMAIN data THEN data[k] ELSE row[k]]

TypeOK ==
    /\ DOMAIN providers \subseteq ProviderIds
    /\ DOMAIN transactions \subseteq TxIds
    /\ now \in Times
    /\ Len(syncLogs) <= MaxLogs
    /\ DOMAIN reqs = Slots
    /\ spent \in 0..MaxWork

Init ==
    /\ providers = <<>>
    /\ transactions = <<>>
    /\ expenses = <<>>
    /\ advances = <<>>
    /\ deliveries = <<>>
    /\ syncLogs = <<>>
    /\ now = 0
    /\ reqs = [r \in Slots |-> Idle]
    /\ spent = 0

\* The server already holds a provider and a transaction of u1, both
\* last written at time 0.
InitConc ==
    /\ providers = [id \in {"p1"} |->
                      [userId |-> "u1", name |-> "a",
                       createdAt |-> 0, updatedAt |-> 0]]
    /\ transactions = [id \in {"t1"} |->
                         [userId |-> "u1",
                          status |-> "ACTIVE", closedAt |-> NullTime,
                          quantity |-> NullAmount,
                          unitPrice |-> NullAmount,
                          totalAmount |-> NullAmount,
                          transactionDate |-> 1,
                          createdAt |-> 0, updatedAt |-> 0]]
    /\ expenses = <<>>
    /\ advances = <<>>
    /\ deliveries = <<>>
    /\ syncLogs = <<>>
    /\ now = 0
    /\ reqs = [r \in Slots |-> Idle]
    /\ spent = 0

\* new Date(), now(): the server clock is read as t, not earlier than
\* the time it was read last
ReadClock(t) ==
    /\ t \in Times
    /\ t >= now
    /\ now' = t

\* ------------------------------------------------- POST /api/sync/push
\* the request of slot r, with the fields of f replaced
With(r, f) ==
    [reqs EXCEPT ![r] = [k \in DOMAIN reqs[r] |->
                            IF k \in DOMAIN f THEN f[k] ELSE reqs[r][k]]]

Active(r) == reqs[r].pc \notin {"idle", "done"}

\* a request is received by a slot that is free; a request and each
\* record or checkpoint it carries take one unit of MaxWork
CanStart(r, n) ==
    /\ ~Active(r)
    /\ spent + 1 + n <= MaxWork
    /\ spent' = spent + 1 + n

\* results.<coll>.errors.push({ id, error: error.message })
PushError(results, coll, id, msg) ==
    [results EXCEPT ![coll].errors = Append(@, [id |-> id, error |-> msg])]

\* results.<coll>.created++, results.<coll>.updated++
Count_Twice(results, coll, field) ==
    [results EXCEPT ![coll][field] = @ + 2]

Count(results, coll, field) ==
    [results EXCEPT ![coll][field] = @ + 1]

\* A push reaches the handler.  ne is req.body.expenses.length, plan is
\* req.body when the batch is fixed up front and NULL when its records are
\* drawn by the loops, taken counts the records the loops have reached.
\* attempt, first (the results of the first attempt), before (the tables
\* when a fixed batch arrives) and logged (the SyncLog rows the call has
\* written) are history, the handler does not read them.
NewPush(u, ne, plan, attempt, first) ==
    [pc |-> "providers", kind |-> "push", user |-> u, nExpenses |-> ne,
     taken |-> NoneYet, plan |-> plan, attempt |-> attempt, first |-> first,
     before |-> IF plan = NULL THEN NULL
                ELSE [providers |-> providers, transactions |-> transactions],
     results |-> ZeroResults, coll |-> "", rec |-> NULL, existing |-> NULL,
     error |-> "", logged |-> 0, response |-> NULL]

BeginPush(r, u, ne) ==
    /\ CanStart(r, ne)
    /\ reqs' = [reqs EXCEPT ![r] = NewPush(u, ne, NULL, 1, NULL)]
    /\ UNCHANGED <<providers, transactions, expenses, advances,
                    deliveries, syncLogs, now>>

\* the batches of np providers and nt transactions
Batches(np, nt) ==
    [providers : [1..np -> ProviderWire], transactions : [1..nt -> TxWire]]

\* A push of a batch of np providers and nt transactions that is fixed
\* when it is sent.
BeginSend(r, u, np, nt) ==
    /\ CanStart(r, np + nt)
    /\ \E plan \in Batches(np, nt) :
          reqs' = [reqs EXCEPT ![r] = NewPush(u, 0, plan, 1, NULL)]
    /\ UNCHANGED <<providers, transactions, expenses, advances,
                    deliveries, syncLogs, now>>

\* The client sends the batch of its last push once more, unchanged,
\* with no other request in between.
Resend(r) ==
    /\ CanStart(r, 0)
    /\ reqs[r].pc = "done"
    /\ reqs[r].kind = "push"
    /\ reqs[r].plan # NULL
    /\ reqs[r].attempt = 1
    /\ \A q \in Slots \ {r} : reqs[q].pc = "idle"
    /\ reqs' = [reqs EXCEPT ![r] =
                  NewPush(reqs[r].user, reqs[r].nExpenses, reqs[r].plan,
                          2, reqs[r].results)]
    /\ UNCHANGED <<providers, transactions, expenses, advances,
                    deliveries, syncLogs, now>>

\* the comparison with >= in place of >
ClientNewer_NotOlder(rec, existing) ==
    /\ NewDate(rec.updatedAt) # NaN
    /\ NewDate(rec.updatedAt) >= existing.updatedAt

\* new Date(record.updatedAt) > new Date(existing.updatedAt)
ClientNewer(rec, existing) ==
    DateGT(NewDate(rec.updatedAt), existing.updatedAt)

\* prisma.provider.update({ where: { id }, data: {...} })
ProviderUpdate(table, rec) ==
    Put(table, rec.id, [table[rec.id] EXCEPT
                           !.name = rec.name,
                           !.updatedAt = NewDate(rec.updatedAt)])

\* the create that lets the server stamp the row
ProviderCreate_ServerStamp(table, user, rec) ==
    Put(table, rec.id, [userId |-> user, name |-> rec.name,
                        createdAt |-> now, updatedAt |-> now])

\* prisma.provider.create({ data: {...} })
ProviderCreate(table, user, rec) ==
    Put(table, rec.id, [userId |-> user, name |-> rec.name,
                        createdAt |-> NewDate(rec.createdAt),
                        updatedAt |-> NewDate(rec.updatedAt)])

\* quantity: transaction.quantity, unitPrice: transaction.unitPrice,
\* totalAmount: transaction.totalAmount: the figures the record carries;
\* one it does not carry is undefined and is left out of the write
Figures(rec) ==
    [k \in DOMAIN rec \cap {"quantity", "unitPrice", "totalAmount"} |-> rec[k]]

\* prisma.transaction.update({ where: { id }, data: {...} })
TransactionUpdate(table, rec) ==
    Put(table, rec.id,
        Merge(table[rec.id],
              Figures(rec) @@ [status |-> rec.status,
                               updatedAt |-> NewDate(rec.updatedAt)]))

\* prisma.transaction.create({ data: {...} }); closedAt is not in data,
\* and a figure the record does not carry is stored as null
TransactionCreate(table, user, rec) ==
    Put(table, rec.id,
        Merge([userId |-> user,
               status |-> rec.status, closedAt |-> NullTime,
               quantity |-> NullAmount, unitPrice |-> NullAmount,
               totalAmount |-> NullAmount,
               transactionDate |-> rec.transactionDate,
               createdAt |-> NewDate(rec.createdAt),
               updatedAt |-> NewDate(rec.updatedAt)],
              Figures(rec)))

\* the message a create is rejected with, "" when it is accepted:
\* Invalid Date in a DateTime column, a row of any owner under the
\* primary key
CreateRejected_NoKey(table, rec) ==
    IF NewDate(rec.createdAt) = NaN \/ NewDate(rec.updatedAt) = NaN
    THEN "Invalid Date"
    ELSE ""

CreateRejected(table, rec) ==
    IF NewDate(rec.createdAt) = NaN \/ NewDate(rec.updatedAt) = NaN
    THEN "Invalid Date"
    ELSE IF rec.id \in DOMAIN table
    THEN "Unique constraint failed"
    ELSE ""

\* The body of one loop iteration after the lookup: what it does to the
\* table and how it is counted.  ok is whether the storage call, when one
\* is made, goes through.
Reconcile(coll, table, user, rec, existing, ok) ==
    IF existing # NULL
    THEN IF ClientNewer(rec, existing)
         THEN IF ok
              THEN [kind |-> "updated", msg |-> "",
                    table |-> IF coll = "providers"
                              THEN ProviderUpdate(table, rec)
                              ELSE TransactionUpdate(table, rec)]
              ELSE [kind |-> "error", msg |-> "unavailable", table |-> table]
         ELSE [kind |-> "skipped", msg |-> "", table |-> table]
    ELSE IF ~ok
         THEN [kind |-> "error", msg |-> "unavailable", table |-> table]
         ELSE IF CreateRejected(table, rec) # ""
         THEN [kind |-> "error", msg |-> CreateRejected(table, rec),
               table |-> table]
         ELSE [kind |-> "created", msg |-> "",
               table |-> IF coll = "providers"
                         THEN ProviderCreate(table, user, rec)
                         ELSE TransactionCreate(table, user, rec)]

\* the loop body with an empty catch
Tally_Swallow(results, coll, id, out) ==
    CASE out.kind = "created" -> Count(results, coll, "created")
      [] out.kind = "updated" -> Count(results, coll, "updated")
      [] OTHER -> results

\* results.<coll>.created++, .updated++, or the catch's errors.push
Tally(results, coll, id, out) ==
    CASE out.kind = "created" -> Count(results, coll, "created")
      [] out.kind = "updated" -> Count(results, coll, "updated")
      [] out.kind = "error" -> PushError(results, coll, id, out.msg)
      [] OTHER -> results

Table(coll) == IF coll = "providers" THEN providers ELSE transactions

\* for (const record of <coll>): the next record of the array and its
\* findFirst; a lookup that throws goes to the catch and the loop goes on
Lookup(r, coll, rec, ok) ==
    LET q == reqs[r]
        n == q.taken[coll]
        taken == [q.taken EXCEPT ![coll] = n + 1]
    IN
    /\ q.pc = coll
    /\ IF q.plan = NULL
       THEN /\ n < MaxBatch
            /\ spent < MaxWork
            /\ spent' = spent + 1
       ELSE /\ n < Len(q.plan[coll])
            /\ rec = q.plan[coll][n + 1]
            /\ UNCHANGED spent
    /\ reqs' = IF ok
               THEN With(r, [pc |-> "write", coll |-> coll, rec |-> rec,
                             taken |-> taken,
                             existing |-> FindFirst(Table(coll), rec.id, q.user)])
               ELSE With(r, [taken |-> taken,
                             results |-> PushError(q.results, coll,
                                                   rec.id, "unavailable")])
    /\ UNCHANGED <<providers, transactions, expenses, advances,
                    deliveries, syncLogs, now>>

\* if (existing) { if (newer) update } else create, the counters, the catch
Write(r, coll, ok) ==
    LET q == reqs[r]
        out == Reconcile(coll, Table(coll), q.user, q.rec, q.existing, ok)
    IN
    /\ q.pc = "write"
    /\ q.coll = coll
    /\ reqs' = With(r, [pc |-> coll, coll |-> "", rec |-> NULL,
                        existing |-> NULL,
                        results |-> Tally(q.results, coll, q.rec.id, out)])
    /\ IF coll = "providers"
       THEN providers' = out.table /\ UNCHANGED transactions
       ELSE transactions' = out.table /\ UNCHANGED providers
    /\ UNCHANGED <<expenses, advances, deliveries, syncLogs, now, spent>>

\* the array of coll is exhausted
Exhausted(q, coll) ==
    q.plan # NULL => q.taken[coll] = Len(q.plan[coll])

\* the providers loop is over, the transactions loop starts
EndProviders(r) ==
    /\ reqs[r].pc = "providers"
    /\ Exhausted(reqs[r], "providers")
    /\ reqs' = With(r, [pc |-> "transactions"])
    /\ UNCHANGED <<providers, transactions, expenses, advances,
                    deliveries, syncLogs, now, spent>>

\* the transactions loop is over
EndTransactions(r) ==
    /\ reqs[r].pc = "transactions"
    /\ Exhausted(reqs[r], "transactions")
    /\ reqs' = With(r, [pc |-> "log"])
    /\ UNCHANGED <<providers, transactions, expenses, advances,
                    deliveries, syncLogs, now, spent>>

\* transactions.length + providers.length + expenses.length
RecordsCount(q) ==
    q.taken.transactions + q.taken.providers + q.nExpenses

\* a SyncLog row; errorMessage "" is the NULL column, createdAt is the
\* row's position in syncLogs
LogRow(q, count, status, msg) ==
    [userId |-> q.user, syncType |-> q.kind, recordsCount |-> count,
     status |-> status, errorMessage |-> msg]

\* await prisma.syncLog.create({... status: 'success' }); res.json(...)
\* a create that throws enters the handler's catch
PushLog(r, ok) ==
    LET q == reqs[r] IN
    /\ q.pc = "log"
    /\ IF ok
       THEN /\ syncLogs' = Append(syncLogs,
                              LogRow(q, RecordsCount(q), "success", ""))
            /\ reqs' = With(r, [pc |-> "done", logged |-> q.logged + 1,
                                response |-> [status |-> 200,
                                              message |-> "Sync completed",
                                              results |-> q.results]])
       ELSE /\ reqs' = With(r, [pc |-> "catch", error |-> "unavailable"])
            /\ UNCHANGED syncLogs
    /\ UNCHANGED <<providers, transactions, expenses, advances,
                    deliveries, now, spent>>

\* catch (error): await prisma.syncLog.create({... status: 'failed' });
\* res.status(500).  When this create throws too the handler's promise
\* rejects and no response is sent.
CatchLog(r, ok) ==
    LET q == reqs[r] IN
    /\ q.pc = "catch"
    /\ IF ok
       THEN /\ syncLogs' = Append(syncLogs, LogRow(q, 0, "failed", q.error))
            /\ reqs' = With(r, [pc |-> "done", logged |-> q.logged + 1,
                                response |-> [status |-> 500,
                                              error |-> "Sync failed"]])
       ELSE /\ reqs' = With(r, [pc |-> "done", response |-> NULL])
            /\ UNCHANGED syncLogs
    /\ UNCHANGED <<providers, transactions, expenses, advances,
                    deliveries, now, spent>>

\* ------------------------------------------------- GET /api/sync/pull
\* lastSync ? new Date(lastSync) : new Date(0)
LastSyncDate(lastSync) == IF lastSync = Omitted THEN 0 ELSE NewDate(lastSync)

\* findMany({ where: { userId, updatedAt: { gt: lastSyncDate } } })
FindManyOwned(table, user, lastSyncDate) ==
    LET ids == {id \in DOMAIN table : /\ table[id].userId = user
                                      /\ table[id].updatedAt > lastSyncDate}
    IN [id \in ids |-> table[id]]

\* expense.findMany({ where: { transactionId: null, updatedAt: { gt } } })
FindManyGeneral(table, lastSyncDate) ==
    LET ids == {id \in DOMAIN table : /\ table[id].transactionId = NullId
                                      /\ table[id].updatedAt > lastSyncDate}
    IN [id \in ids |-> table[id]]

Size(f) == Cardinality(DOMAIN f)

BeginPull(r, u, lastSync) ==
    /\ CanStart(r, 1)
    /\ reqs' = [reqs EXCEPT ![r] =
                  [pc |-> "read", kind |-> "pull", user |-> u,
                   lastSync |-> lastSync, began |-> NullTime, data |-> NULL,
                   error |-> "", logged |-> 0, response |-> NULL]]
    /\ UNCHANGED <<providers, transactions, expenses, advances,
                    deliveries, syncLogs, now>>

\* the Promise.all of the findMany queries; Invalid Date in the filter is
\* rejected by the client library before any query is sent.  began is
\* history: the server time at which the queries are issued, which the
\* handler itself does not read
PullRead(r, ok) ==
    LET q == reqs[r]
        d == LastSyncDate(q.lastSync)
    IN
    /\ q.pc = "read"
    /\ reqs' = IF d = NaN
               THEN With(r, [pc |-> "catch", error |-> "Invalid Date"])
               ELSE IF ~ok
               THEN With(r, [pc |-> "catch", error |-> "unavailable"])
               ELSE With(r, [pc |-> "pull-log", began |-> now,
                             data |-> [transactions |-> FindManyOwned(transactions, q.user, d),
                                       providers |-> FindManyOwned(providers, q.user, d),
                                       expenses |-> FindManyGeneral(expenses, d)]])
    /\ UNCHANGED <<providers, transactions, expenses, advances,
                    deliveries, syncLogs, now, spent>>

\* await prisma.syncLog.create({... status: 'success' });
\* res.json({ data, syncTimestamp: new Date().toISOString() })
PullLog(r, ok, t) ==
    LET q == reqs[r]
        n == Size(q.data.transactions) + Size(q.data.providers) + Size(q.data.expenses)
    IN
    /\ q.pc = "pull-log"
    /\ IF ok
       THEN /\ syncLogs' = Append(syncLogs, LogRow(q, n, "success", ""))
            /\ ReadClock(t)
            /\ reqs' = With(r, [pc |-> "done", logged |-> q.logged + 1,
                                response |-> [status |-> 200, data |-> q.data,
                                              syncTimestamp |-> t]])
       ELSE /\ reqs' = With(r, [pc |-> "catch", error |-> "unavailable"])
            /\ t = now
            /\ UNCHANGED <<syncLogs, now>>
    /\ UNCHANGED <<providers, transactions, expenses, advances,
                    deliveries, spent>>

\* ------------------------------------------------- POST /api/expenses
ExpenseIds == {"e1"}

\* prisma.expense.create({ data: { ..., transactionId: null } }): the id is
\* generated, createdAt and updatedAt are the time of the insert.  The
\* table has no user column; recordedBy is history, the authenticated
\* caller of the request that made the row
CreateExpense(id, u, t) ==
    /\ id \notin DOMAIN expenses
    /\ ReadClock(t)
    /\ expenses' = Put(expenses, id, [transactionId |-> NullId,
                                      createdAt |-> t, updatedAt |-> t,
                                      recordedBy |-> u])
    /\ UNCHANGED <<providers, transactions, advances, deliveries, syncLogs,
                   reqs, spent>>

\* ------------------------------------------------- /api/transactions
\* body('totalAmount').isFloat({ min: 0 }), body('amount') and
\* body('quantity').isFloat({ min: 0.01 })
Amounts == {1, 2}

\* POST /: totalAmount || (quantity && unitPrice ? quantity * unitPrice
\* : null), where 0 and a field left out are falsy
CalculatedTotal(totalAmount, quantity, unitPrice) ==
    IF totalAmount \notin {NullAmount, 0}
    THEN totalAmount
    ELSE IF quantity \notin {NullAmount, 0} /\ unitPrice \notin {NullAmount, 0}
    THEN quantity * unitPrice
    ELSE NullAmount

\* POST /: prisma.transaction.create({ data: { ..., totalAmount:
\* calculatedTotal, userId: req.user.id, ... } }); the id is generated,
\* status defaults to ACTIVE, the timestamps to the time of the insert
PostTransaction(id, u, total, quantity, unitPrice, t) ==
    /\ id \notin DOMAIN transactions
    /\ ReadClock(t)
    /\ transactions' = Put(transactions, id,
                           [userId |-> u,
                            status |-> "ACTIVE", closedAt |-> NullTime,
                            quantity |-> quantity, unitPrice |-> unitPrice,
                            totalAmount |->
                               CalculatedTotal(total, quantity, unitPrice),
                            transactionDate |-> t,
                            createdAt |-> t, updatedAt |-> t])
    /\ UNCHANGED <<providers, expenses, advances, deliveries, syncLogs,
                   reqs, spent>>

\* body('amount') and body('quantity').isFloat({ min: 0.01 }) of the
\* movement routes, on whole numbers; validate answers 400 otherwise
Valid_Any(kind, amount) == TRUE

Valid(kind, amount) ==
    kind \in {"advance", "delivery"} => amount >= 1

\* a request on /:id of kind close, patch, advance or delivery, past the
\* validate middleware
NewOp(kind, u, id, amount) ==
    [pc |-> IF Valid(kind, amount) THEN kind ELSE "done",
     kind |-> kind, user |-> u, id |-> id, amount |-> amount,
     quantity |-> NullAmount, unitPrice |-> NullAmount,
     response |-> IF Valid(kind, amount)
                  THEN NULL
                  ELSE [status |-> 400, body |-> "Validation failed"]]

BeginOp(r, kind, u, id, amount) ==
    /\ CanStart(r, IF amount = NullAmount THEN 0 ELSE 1)
    /\ reqs' = [reqs EXCEPT ![r] = NewOp(kind, u, id, amount)]
    /\ UNCHANGED <<providers, transactions, expenses, advances,
                   deliveries, syncLogs, now>>

\* PATCH /:id with quantity and unitPrice in the body and no totalAmount;
\* NullAmount is a field the body leaves out
BeginPatchFigures(r, u, id, quantity, unitPrice) ==
    /\ CanStart(r, 1)
    /\ reqs' = [reqs EXCEPT ![r] =
                  Merge(NewOp("patch", u, id, NullAmount),
                        [quantity |-> quantity, unitPrice |-> unitPrice])]
    /\ UNCHANGED <<providers, transactions, expenses, advances,
                   deliveries, syncLogs, now>>

\* res.status(code).json(body)
Respond(r, code, body) ==
    With(r, [pc |-> "done", response |-> [status |-> code, body |-> body]])

\* where: { id, userId: req.user.id, status: 'ACTIVE' }, for the row of
\* that id
WhereActive_AnyOwner(row, user) == row.status = "ACTIVE"

WhereActive(row, user) == row.userId = user /\ row.status = "ACTIVE"

\* prisma.transaction.updateMany({ where: { id, userId, status: 'ACTIVE' },
\* data }): the rows are matched and written in one statement
UpdateManyActive_AnyStatus(table, id, user, data) ==
    IF id \in DOMAIN table /\ table[id].userId = user
    THEN [count |-> 1, table |-> Put(table, id, Merge(table[id], data))]
    ELSE [count |-> 0, table |-> table]

UpdateManyActive(table, id, user, data) ==
    IF id \in DOMAIN table /\ WhereActive(table[id], user)
    THEN [count |-> 1, table |-> Put(table, id, Merge(table[id], data))]
    ELSE [count |-> 0, table |-> table]

\* POST /:id/close: the updateMany, closedAt: new Date(), and the answer
CloseUpdate(r, ok, t) ==
    LET q == reqs[r]
        out == UpdateManyActive(transactions, q.id, q.user,
                                [status |-> "CLOSED", closedAt |-> t,
                                 updatedAt |-> t])
    IN
    /\ q.pc = "close"
    /\ IF ok
       THEN /\ ReadClock(t)
            /\ transactions' = out.table
            /\ reqs' = IF out.count = 0
                       THEN Respond(r, 404, "Transaction not found or already closed")
                       ELSE Respond(r, 200, "Transaction closed successfully")
       ELSE /\ t = now
            /\ reqs' = Respond(r, 500, "Failed to close transaction")
            /\ UNCHANGED <<transactions, now>>
    /\ UNCHANGED <<providers, expenses, advances, deliveries, syncLogs, spent>>

\* ...(quantity !== undefined && { quantity }), ... : the columns of the
\* fields the body defines
PatchData(q) ==
    LET body == [quantity |-> q.quantity, unitPrice |-> q.unitPrice,
                 totalAmount |-> q.amount]
    IN [k \in {f \in DOMAIN body : body[f] # NullAmount} |-> body[k]]

\* PATCH /:id: the updateMany with the fields the body defines
PatchUpdate(r, ok, t) ==
    LET q == reqs[r]
        out == UpdateManyActive(transactions, q.id, q.user,
                                PatchData(q) @@ [updatedAt |-> t])
    IN
    /\ q.pc = "patch"
    /\ IF ok
       THEN /\ ReadClock(t)
            /\ transactions' = out.table
            /\ reqs' = IF out.count = 0
                       THEN Respond(r, 404, "Transaction not found or cannot be edited")
                       ELSE With(r, [pc |-> "patch-read"])
       ELSE /\ t = now
            /\ reqs' = Respond(r, 500, "Failed to update transaction")
            /\ UNCHANGED <<transactions, now>>
    /\ UNCHANGED <<providers, expenses, advances, deliveries, syncLogs, spent>>

\* PATCH /:id: prisma.transaction.findUnique({ where: { id } }) and the
\* answer
PatchRead(r, ok) ==
    LET q == reqs[r] IN
    /\ q.pc = "patch-read"
    /\ reqs' = IF ok
               THEN Respond(r, 200, transactions[q.id])
               ELSE Respond(r, 500, "Failed to update transaction")
    /\ UNCHANGED <<providers, transactions, expenses, advances,
                   deliveries, syncLogs, now, spent>>

\* prisma.transaction.findFirst({ where: { id, userId, status: 'ACTIVE' } })
FindFirstActive_AnyStatus(table, id, user) == FindFirst(table, id, user)

FindFirstActive(table, id, user) ==
    IF id \in DOMAIN table /\ WhereActive(table[id], user)
    THEN table[id]
    ELSE NULL

\* if (!transaction) return res.status(404).json({ error: ... }): the
\* answer when the lookup of id for user found nothing
NotModifiable_Telling(table, id, user) ==
    IF id \notin DOMAIN table
    THEN [status |-> 404, body |-> "Transaction not found"]
    ELSE IF table[id].userId # user
    THEN [status |-> 403, body |-> "Forbidden"]
    ELSE [status |-> 409, body |-> "Transaction is closed"]

NotModifiable(table, id, user) ==
    [status |-> 404, body |-> "Transaction not found or cannot be modified"]

\* POST /:id/advances, POST /:id/deliveries: the ownership lookup
MovementFind(r, ok) ==
    LET q == reqs[r] IN
    /\ q.pc \in {"advance", "delivery"}
    /\ reqs' = IF ~ok
               THEN Respond(r, 500, "Failed to add " \o q.kind)
               ELSE IF FindFirstActive(transactions, q.id, q.user) = NULL
               THEN With(r, [pc |-> "done",
                             response |-> NotModifiable(transactions, q.id,
                                                        q.user)])
               ELSE With(r, [pc |-> "create"])
    /\ UNCHANGED <<providers, transactions, expenses, advances,
                   deliveries, syncLogs, now, spent>>

\* prisma.advance.create / prisma.delivery.create({ data: { amount |
\* quantity, description, transactionId } }) and the answer
MovementCreate(r, ok, t) ==
    LET q == reqs[r]
        row == IF q.kind = "advance"
               THEN [transactionId |-> q.id, amount |-> q.amount,
                     createdAt |-> t]
               ELSE [transactionId |-> q.id, quantity |-> q.amount,
                     createdAt |-> t]
    IN
    /\ q.pc = "create"
    /\ IF ok
       THEN /\ ReadClock(t)
            /\ IF q.kind = "advance"
               THEN advances' = Append(advances, row) /\ UNCHANGED deliveries
               ELSE deliveries' = Append(deliveries, row) /\ UNCHANGED advances
            /\ reqs' = Respond(r, 201, "added successfully")
       ELSE /\ t = now
            /\ reqs' = Respond(r, 500, "Failed to add " \o q.kind)
            /\ UNCHANGED <<advances, deliveries, now>>
    /\ UNCHANGED <<providers, transactions, expenses, syncLogs, spent>>

\* ------------------------------------------------- GET /api/sync/status
\* take: 20
Take == 20

\* A sync of u has ended and its handler has written its row (PushLog,
\* CatchLog, PullLog); the steps before the row are left out.  A sync
\* that repeats the one before it, a retry, takes no unit of MaxWork.
SyncEnded(u, kind, status) ==
    LET row == [userId |-> u, syncType |-> kind, recordsCount |-> 0,
                status |-> status,
                errorMessage |-> IF status = "failed" THEN "unavailable"
                                                      ELSE ""]
    IN
    /\ Len(syncLogs) < MaxLogs
    /\ IF syncLogs # <<>> /\ syncLogs[Len(syncLogs)] = row
       THEN UNCHANGED spent
       ELSE spent < MaxWork /\ spent' = spent + 1
    /\ syncLogs' = Append(syncLogs, row)
    /\ UNCHANGED <<providers, transactions, expenses, advances,
                   deliveries, now, reqs>>

\* the rows of a table are written at distinct times, so the position of
\* a row stands for its createdAt
Stamped(logs, i) == logs[i] @@ [createdAt |-> i]

\* where: { userId }, orderBy: { createdAt: 'desc' }: the positions of
\* the rows of user among the first i, the newest first
RECURSIVE NewestFirst(_, _, _)
NewestFirst(logs, user, i) ==
    IF i = 0
    THEN <<>>
    ELSE IF logs[i].userId = user
    THEN <<i>> \o NewestFirst(logs, user, i - 1)
    ELSE NewestFirst(logs, user, i - 1)

\* prisma.syncLog.findMany({ where, orderBy, take: 20 })
FindManyLogs(logs, user) ==
    LET all == NewestFirst(logs, user, Len(logs))
        n == IF Len(all) < Take THEN Len(all) ELSE Take
    IN [k \in 1..n |-> Stamped(logs, all[k])]

\* rows.find(log => log.status === 'success')?.createdAt, no timestamp
\* when find returns undefined
LastSync(rows) ==
    LET hits == {k \in DOMAIN rows : rows[k].status = "success"}
    IN IF hits = {}
       THEN NullTime
       ELSE rows[CHOOSE k \in hits : \A j \in hits : k <= j].createdAt

BeginStatus(r, u) ==
    /\ CanStart(r, 1)
    /\ reqs' = [reqs EXCEPT ![r] = [pc |-> "status", kind |-> "status",
                                    user |-> u, response |-> NULL]]
    /\ UNCHANGED <<providers, transactions, expenses, advances,
                   deliveries, syncLogs, now>>

\* the findMany and the answer
StatusRead(r, ok) ==
    LET q == reqs[r]
        rows == FindManyLogs(syncLogs, q.user)
    IN
    /\ q.pc = "status"
    /\ reqs' = IF ok
               THEN With(r, [pc |-> "done",
                             response |-> [status |-> 200,
                                           lastSync |-> LastSync(rows),
                                           history |-> rows]])
               ELSE Respond(r, 500, "Failed to fetch sync status")
    /\ UNCHANGED <<providers, transactions, expenses, advances,
                   deliveries, syncLogs, now, spent>>

\* ------------------------------------------------- calculateBalances
\* Amounts, quantities and totals are whole numbers here, on which the
\* sums and differences of the number type are exact; a progress is kept
\* in hundredths of a percent, the integer Math.round returns before the
\* division by 100.

\* list.reduce((sum, x) => sum + x, 0)
Reduce_Last(values) ==
    IF values = <<>> THEN 0 ELSE values[Len(values)]

RECURSIVE Reduce(_)
Reduce(values) ==
    IF values = <<>>
    THEN 0
    ELSE Reduce(SubSeq(values, 1, Len(values) - 1)) + values[Len(values)]

\* Math.round(num / den) for num >= 0, den > 0: halves go up
MathRound_Floor(num, den) == num \div den

MathRound(num, den) == (2 * num + den) \div (2 * den)

\* x || 0
OrZero(x) == IF x = NullAmount THEN 0 ELSE x

\* whole > 0 ? (part / whole) * 100 : 0, then Math.round(... * 100)
Progress(part, whole) ==
    IF whole # NullAmount /\ whole > 0
    THEN MathRound(part * 100 * 100, whole)
    ELSE 0

calculateBalances(transaction, advs, dels) ==
    LET totalAdvances == Reduce([i \in 1..Len(advs) |-> advs[i].amount])
        totalDelivered == Reduce([i \in 1..Len(dels) |-> dels[i].quantity])
    IN [totalAdvances |-> totalAdvances,
        totalDelivered |-> totalDelivered,
        moneyBalance |-> OrZero(transaction.totalAmount) - totalAdvances,
        productBalance |-> OrZero(transaction.quantity) - totalDelivered,
        moneyProgress |-> Progress(totalAdvances, transaction.totalAmount),
        productProgress |-> Progress(totalDelivered, transaction.quantity)]

\* include: { advances: { orderBy: { advanceDate: 'desc' } }, ... }: the
\* rows of table that belong to transaction id, the newest first
RECURSIVE MovementsOf(_, _)
MovementsOf(table, id) ==
    IF table = <<>>
    THEN <<>>
    ELSE LET older == MovementsOf(SubSeq(table, 1, Len(table) - 1), id)
         IN IF table[Len(table)].transactionId = id
            THEN <<table[Len(table)]>> \o older
            ELSE older

\* GET /:id: the findFirst with its includes, calculateBalances and the
\* answer; no organization has members here, so the OR of the where
\* clause is the userId test
DetailRead(r, ok) ==
    LET q == reqs[r]
        transaction == FindFirst(transactions, q.id, q.user)
    IN
    /\ q.pc = "detail"
    /\ reqs' = IF ~ok
               THEN Respond(r, 500, "Failed to fetch transaction")
               ELSE IF transaction = NULL
               THEN Respond(r, 404, "Transaction not found")
               ELSE Respond(r, 200,
                            [transaction |-> transaction,
                             balances |->
                                calculateBalances(
                                   transaction,
                                   MovementsOf(advances, q.id),
                                   MovementsOf(deliveries, q.id))])
    /\ UNCHANGED <<providers, transactions, expenses, advances,
                   deliveries, syncLogs, now, spent>>

\* the agreed total and the agreed quantity of a transaction
Agreed == {NullAmount, 0, 3, 32}

Lists(S) == UNION {[1..n -> S] : n \in 0..MaxMoves}
AdvanceLists == Lists([amount : Amounts])
DeliveryLists == Lists([quantity : Amounts])

\* the same entries in any order
Reorderings(list) ==
    {[i \in 1..Len(list) |-> list[p[i]]] : p \in Permutations(1..Len(list))}

\* a call of calculateBalances that has not returned yet
NewCall(transaction, advs, dels) ==
    [pc |-> "call", kind |-> "balances", transaction |-> transaction,
     advances |-> advs, deliveries |-> dels, response |-> NULL]

\* two calls: the second is handed the movements of the first in some
\* order
InitBalances ==
    /\ providers = <<>>
    /\ transactions = <<>>
    /\ expenses = <<>>
    /\ advances = <<>>
    /\ deliveries = <<>>
    /\ syncLogs = <<>>
    /\ now = 0
    /\ spent = 0
    /\ \E transaction \in [totalAmount : Agreed, quantity : Agreed],
          advs \in AdvanceLists, dels \in DeliveryLists :
          \E advs2 \in Reorderings(advs), dels2 \in Reorderings(dels) :
             reqs = [r \in Slots |->
                       IF r = 1 THEN NewCall(transaction, advs, dels)
                                ELSE NewCall(transaction, advs2, dels2)]

\* the call returns
Balances(r) ==
    LET q == reqs[r] IN
    /\ q.pc = "call"
    /\ reqs' = With(r, [pc |-> "done",
                        response |-> calculateBalances(q.transaction,
                                                       q.advances,
                                                       q.deliveries)])
    /\ UNCHANGED <<providers, transactions, expenses, advances,
                   deliveries, syncLogs, now, spent>>

\* ------------------------------------------------- specifications
\* req.body.expenses.length
ExpenseCounts == {0, 1}
\* req.query.lastSync
LastSyncWire == Times \cup {Omitted, NaN}

\* the steps of a push after it has begun; faults says whether the
\* storage calls of the loops may throw
PushStep(r, faults, logFaults) ==
    \/ \E coll \in {"providers", "transactions"} :
          \E rec \in Wire(coll), ok \in {TRUE} \cup faults :
             Lookup(r, coll, rec, ok)
    \/ \E coll \in {"providers", "transactions"},
          ok \in {TRUE} \cup faults : Write(r, coll, ok)
    \/ EndProviders(r)
    \/ EndTransactions(r)
    \/ \E ok \in {TRUE} \cup logFaults : PushLog(r, ok)

PullStep(r) ==
    \/ \E u \in Users, lastSync \in LastSyncWire : BeginPull(r, u, lastSync)
    \/ \E ok \in BOOLEAN : PullRead(r, ok)
    \/ \E ok \in BOOLEAN, t \in Times : PullLog(r, ok, t)

\* the catch block of either handler
Catch(r) == \E ok \in BOOLEAN : CatchLog(r, ok)

\* one request at a time, every storage call may throw
Next ==
    \/ \E u \in Users, ne \in ExpenseCounts : BeginPush(1, u, ne)
    \/ PushStep(1, {FALSE}, {FALSE})
    \/ Catch(1)

Spec == Init /\ [][Next]_vars

\* one request at a time: a batch is pushed, then pushed again
NextRetry ==
    \/ \E u \in Users, np \in 0..MaxBatch, nt \in 0..MaxBatch :
          BeginSend(1, u, np, nt)
    \/ Resend(1)
    \/ PushStep(1, {}, {})

SpecRetry == Init /\ [][NextRetry]_vars

\* one request at a time, pushes and pulls
NextSync ==
    \/ \E id \in ExpenseIds, u \in Users, t \in Times : CreateExpense(id, u, t)
    \/ \E u \in Users : BeginPush(1, u, 0)
    \/ PushStep(1, {}, {})
    \/ PullStep(1)
    \/ Catch(1)

SpecSync == Init /\ [][NextSync]_vars

\* two devices push one record each, side by side
NextConc ==
    \/ \E r \in Slots, u \in Users :
          BeginSend(r, u, 1, 0) \/ BeginSend(r, u, 0, 1)
    \/ \E r \in Slots : PushStep(r, {}, {})

SpecConc == InitConc /\ [][NextConc]_vars

\* the steps of a request on /:id after it has begun
OpStep(r, faults) ==
    \/ \E ok \in {TRUE} \cup faults, t \in Times : CloseUpdate(r, ok, t)
    \/ \E ok \in {TRUE} \cup faults, t \in Times : PatchUpdate(r, ok, t)
    \/ \E ok \in {TRUE} \cup faults : PatchRead(r, ok)
    \/ \E ok \in {TRUE} \cup faults : MovementFind(r, ok)
    \/ \E ok \in {TRUE} \cup faults, t \in Times : MovementCreate(r, ok, t)

\* two requests side by side on the transactions of the REST interface
NextOps ==
    \/ \E id \in TxIds, u \in Users, total \in Amounts, t \in Times :
          PostTransaction(id, u, total, NullAmount, NullAmount, t)
    \/ \E r \in Slots, u \in Users, id \in TxIds :
          \/ BeginOp(r, "close", u, id, NullAmount)
          \/ \E a \in Amounts : BeginOp(r, "patch", u, id, a)
          \/ \E a \in Amounts \cup {0} :
                \/ BeginOp(r, "advance", u, id, a)
                \/ BeginOp(r, "delivery", u, id, a)
    \/ \E r \in Slots : OpStep(r, {FALSE})

SpecOps == Init /\ [][NextOps]_vars

\* syncs that end, retries among them, and reads of the sync status
NextStatus ==
    \/ \E u \in Users, kind \in {"push"}, status \in {"success", "failed"} :
          SyncEnded(u, kind, status)
    \/ \E u \in Users : BeginStatus(1, u)
    \/ \E ok \in BOOLEAN : StatusRead(1, ok)

SpecStatus == Init /\ [][NextStatus]_vars

\* a pushed transaction that carries its totalAmount
TxFigures == [id : TxIds, status : Statuses, transactionDate : {1},
              createdAt : {1}, updatedAt : Times, totalAmount : Amounts]

\* one request at a time: transactions are created and closed, and
\* pushed with their totalAmount
NextClosed ==
    \/ \E id \in TxIds, u \in Users, total \in Amounts, t \in Times :
          PostTransaction(id, u, total, NullAmount, NullAmount, t)
    \/ \E u \in Users, id \in TxIds : BeginOp(1, "close", u, id, NullAmount)
    \/ \E t \in Times : CloseUpdate(1, TRUE, t)
    \/ \E u \in Users : BeginPush(1, u, 0)
    \/ \E rec \in TxFigures : Lookup(1, "transactions", rec, TRUE)
    \/ Write(1, "transactions", TRUE)
    \/ EndProviders(1)
    \/ EndTransactions(1)
    \/ PushLog(1, TRUE)

SpecClosed == Init /\ [][NextClosed]_vars

\* one request at a time on transactions created from a quantity and a
\* unit price, with no total in the body: PATCH of quantity and
\* unitPrice, advances, and the detail read
NextTotals ==
    \/ \E id \in TxIds, u \in Users, quantity \in Amounts,
          unitPrice \in Amounts, t \in Times :
          PostTransaction(id, u, NullAmount, quantity, unitPrice, t)
    \/ \E u \in Users, id \in TxIds :
          \/ \E quantity \in Amounts \cup {NullAmount},
                unitPrice \in Amounts \cup {NullAmount} :
                BeginPatchFigures(1, u, id, quantity, unitPrice)
          \/ \E a \in Amounts : BeginOp(1, "advance", u, id, a)
          \/ BeginOp(1, "detail", u, id, NullAmount)
    \/ \E t \in Times : PatchUpdate(1, TRUE, t)
    \/ PatchRead(1, TRUE)
    \/ MovementFind(1, TRUE)
    \/ \E t \in Times : MovementCreate(1, TRUE, t)
    \/ \E ok \in BOOLEAN : DetailRead(1, ok)

SpecTotals == Init /\ [][NextTotals]_vars

\* two devices: one pushes while the other pulls, from the beginning or
\* from a checkpoint
NextDelta ==
    \/ \E u \in Users : BeginPush(1, u, 0)
    \/ PushStep(1, {}, {})
    \/ \E u \in Users, lastSync \in Times \cup {Omitted} :
          BeginPull(2, u, lastSync)
    \/ PullRead(2, TRUE)
    \/ \E t \in Times : PullLog(2, TRUE, t)

SpecDelta == Init /\ [][NextDelta]_vars

\* calls of calculateBalances on every input of the bounded sets
NextBalances == \E r \in Slots : Balances(r)

SpecBalances == InitBalances /\ [][NextBalances]_vars

\* ---------------------------------------------------------------- claims
\* C1: when the lookup of a pushed provider or transaction found a record
\* of the caller and the client updatedAt is not strictly newer than that
\* record's, the iteration leaves both tables as they are, counts the
\* record neither as created nor as updated and reports no error for it.
C1_StaleRecordIsSkipped ==
    [][\A r \in Slots :
          LET q == reqs[r] IN
          (/\ q.pc = "write"
           /\ reqs'[r].pc # "write"
           /\ q.existing # NULL
           /\ ~(/\ q.rec.updatedAt \in Times
                /\ q.rec.updatedAt > q.existing.updatedAt))
          => /\ providers' = providers
             /\ transactions' = transactions
             /\ reqs'[r].results = q.results]_vars

\* a push has ended whose only provider record was neither created nor
\* updated nor reported, while the caller holds a provider
C1_Witness ==
    /\ reqs[1].pc = "done"
    /\ reqs[1].kind = "push"
    /\ reqs[1].response # NULL
    /\ reqs[1].response.status = 200
    /\ reqs[1].taken.providers = 1
    /\ reqs[1].results.providers = ZeroCounts
    /\ "p1" \in DOMAIN providers
    /\ providers["p1"].userId = reqs[1].user

C3_ClientRecordReplacesServerRecord ==
    [][\A r \in Slots :
          LET q == reqs[r]
              after == IF q.coll = "providers" THEN providers'
                       ELSE transactions'
          IN
          (/\ q.pc = "write"
           /\ reqs'[r].pc # "write"
           /\ q.existing # NULL
           /\ q.rec.updatedAt \in Times
           /\ q.rec.updatedAt > q.existing.updatedAt
           /\ reqs'[r].results[q.coll].errors = q.results[q.coll].errors)
          => /\ \A f \in DOMAIN q.rec \ {"id"} :
                   after[q.rec.id][f] = q.rec[f]
             /\ reqs'[r].results[q.coll].updated
                   = q.results[q.coll].updated + 1
             /\ reqs'[r].results[q.coll].created
                   = q.results[q.coll].created]_vars

C5_LaterTimestampWins ==
    \A a, b \in Slots, coll \in {"providers", "transactions"} :
       LET stored == IF coll = "providers" THEN providers ELSE transactions
       IN
       (/\ reqs[a].pc = "done"
        /\ reqs[b].pc = "done"
        /\ reqs[a].user = "u1"
        /\ reqs[b].user = "u1"
        /\ Len(reqs[a].plan[coll]) = 1
        /\ Len(reqs[b].plan[coll]) = 1
        /\ 0 < reqs[a].plan[coll][1].updatedAt
        /\ reqs[a].plan[coll][1].updatedAt < reqs[b].plan[coll][1].updatedAt)
       => LET old == reqs[a].plan[coll][1]
              new == reqs[b].plan[coll][1]
          IN /\ stored[new.id].updatedAt = new.updatedAt
             /\ coll = "providers" => stored[new.id].name = new.name
             /\ coll = "transactions" => stored[new.id].status = new.status

C7_PushWritesOneRow ==
    \A r \in Slots :
       (reqs[r].pc = "done" /\ reqs[r].kind = "push")
       => /\ reqs[r].logged = 1
          /\ \E i \in 1..Len(syncLogs) :
                /\ syncLogs[i].userId = reqs[r].user
                /\ syncLogs[i].syncType = "push"

\* C8 as stated: every pull that has reached the handler and ended has
\* appended exactly one SyncLog row with syncType = pull, and a pull that
\* answers with empty transactions, providers and expenses still carries
\* the time of the answer as syncTimestamp.
C8_PullWritesOneRow ==
    \A r \in Slots :
       (reqs[r].pc = "done" /\ reqs[r].kind = "pull")
       => /\ reqs[r].logged = 1
          /\ \E i \in 1..Len(syncLogs) :
                /\ syncLogs[i].userId = reqs[r].user
                /\ syncLogs[i].syncType = "pull"
          /\ (reqs[r].response # NULL /\ reqs[r].response.status = 200)
                => reqs[r].response.syncTimestamp \in Times

\* C9 as stated: a push or pull that has failed as a whole because a
\* storage call was refused has left a failed SyncLog row with the error
\* message and has answered with the error response.
C9_FailedSyncLeavesRowAndResponse ==
    \A r \in Slots :
       (reqs[r].pc = "done" /\ reqs[r].error = "unavailable")
       => /\ reqs[r].logged = 1
          /\ \E i \in 1..Len(syncLogs) :
                /\ syncLogs[i].userId = reqs[r].user
                /\ syncLogs[i].syncType = reqs[r].kind
                /\ syncLogs[i].status = "failed"
                /\ syncLogs[i].errorMessage = "unavailable"
          /\ reqs[r].response # NULL
          /\ reqs[r].response.status = 500

\* C10 as stated: a pull that answers returns, for transactions and for
\* providers, exactly the caller's records whose updatedAt is strictly
\* greater than the checkpoint, and every record of the caller when the
\* checkpoint is omitted.
C10_PullReturnsNewerRecords ==
    \A r \in Slots :
       LET q == reqs[r] IN
       (/\ q.pc = "done"
        /\ q.kind = "pull"
        /\ q.response # NULL
        /\ q.response.status = 200)
       => LET Expected(table) ==
                 {id \in DOMAIN table :
                     /\ table[id].userId = q.user
                     /\ \/ q.lastSync = Omitted
                        \/ table[id].updatedAt > q.lastSync}
          IN /\ DOMAIN q.response.data.providers = Expected(providers)
             /\ DOMAIN q.response.data.transactions = Expected(transactions)
             /\ \A id \in Expected(providers) :
                   q.response.data.providers[id] = providers[id]
             /\ \A id \in Expected(transactions) :
                   q.response.data.transactions[id] = transactions[id]

\* C11: every general expense a successful pull returns was recorded by
\* the user who pulls
C11_PulledExpensesBelongToCaller ==
    \A r \in Slots :
        (reqs[r].pc = "done" /\ reqs[r].kind = "pull"
            /\ reqs[r].response # NULL /\ reqs[r].response.status = 200)
        => \A id \in DOMAIN reqs[r].response.data.expenses :
              reqs[r].response.data.expenses[id].recordedBy = reqs[r].user

\* C12: the syncTimestamp of a successful pull is the server time at
\* which its read queries were issued
C12_SyncTimestampIsReadTime ==
    \A r \in Slots :
        (reqs[r].pc = "done" /\ reqs[r].kind = "pull"
            /\ reqs[r].response # NULL /\ reqs[r].response.status = 200)
        => reqs[r].response.syncTimestamp = reqs[r].began

\* C13: no step of any request takes a stored transaction from CLOSED
\* back to ACTIVE
C13_ClosedStaysClosed ==
    [][\A id \in DOMAIN transactions :
          transactions[id].status = "CLOSED"
          => transactions'[id].status = "CLOSED"]_vars

\* the transaction a request on /:id names is stored, owned by the caller
\* and ACTIVE
OpenFor(q) ==
    /\ q.id \in DOMAIN transactions
    /\ transactions[q.id].userId = q.user
    /\ transactions[q.id].status = "ACTIVE"

\* C14: when an add-advance or add-delivery request looks up a
\* transaction that is CLOSED, the request ends there with a failure
\* response, no advance or delivery is created and no stored record
\* changes.
C14_ClosedRejectsMovement ==
    [][\A r \in Slots :
          LET q == reqs[r] IN
          (/\ q.pc \in {"advance", "delivery"}
           /\ reqs'[r] # q
           /\ q.id \in DOMAIN transactions
           /\ transactions[q.id].status = "CLOSED")
          => /\ reqs'[r].pc = "done"
             /\ reqs'[r].response.status \in {404, 500}
             /\ advances' = advances
             /\ deliveries' = deliveries
             /\ transactions' = transactions
             /\ providers' = providers
             /\ expenses' = expenses]_vars

C14_Witness ==
    \E r \in Slots :
        LET q == reqs[r] IN
        /\ q.pc = "done"
        /\ q.kind \in {"advance", "delivery"}
        /\ q.response.status = 404
        /\ q.id \in DOMAIN transactions
        /\ transactions[q.id].userId = q.user
        /\ transactions[q.id].status = "CLOSED"
        /\ advances = <<>>
        /\ deliveries = <<>>

\* C15: a close answers with success only when the transaction is ACTIVE
\* and owned by the caller, and in that same step status becomes CLOSED
\* and closedAt the current time; a close of a transaction that is not
\* ACTIVE and the caller's (closed before, also by a request that ran
\* side by side) fails and leaves the transaction as it was.
C15_CloseOnceAtomically ==
    [][\A r \in Slots :
          LET q == reqs[r] IN
          (q.pc = "close" /\ reqs'[r] # q)
          => /\ reqs'[r].pc = "done"
             /\ reqs'[r].response.status = 200
                => /\ OpenFor(q)
                   /\ transactions'[q.id].status = "CLOSED"
                   /\ transactions'[q.id].closedAt = now'
             /\ ~OpenFor(q)
                => /\ reqs'[r].response.status \in {404, 500}
                   /\ transactions' = transactions]_vars

C15_Witness ==
    \E r1, r2 \in Slots :
        /\ r1 # r2
        /\ reqs[r1].pc = "done" /\ reqs[r1].kind = "close"
        /\ reqs[r2].pc = "done" /\ reqs[r2].kind = "close"
        /\ reqs[r1].user = reqs[r2].user
        /\ reqs[r1].id = reqs[r2].id
        /\ reqs[r1].response.status = 200
        /\ reqs[r2].response.status = 404
        /\ transactions[reqs[r1].id].status = "CLOSED"
        /\ transactions[reqs[r1].id].closedAt # NullTime

\* C16: the write of a PATCH changes a transaction only when it is
\* ACTIVE and owned by the caller at the moment of the write, and then
\* sets the fields sent and leaves it ACTIVE; at a transaction that is
\* CLOSED or not the caller's the PATCH fails and every field stays as it
\* was.
C16_PatchOnlyWhileActive ==
    [][\A r \in Slots :
          LET q == reqs[r] IN
          (q.pc = "patch" /\ reqs'[r] # q)
          => /\ transactions' # transactions => OpenFor(q)
             /\ ~OpenFor(q)
                => /\ reqs'[r].pc = "done"
                   /\ reqs'[r].response.status \in {404, 500}
                   /\ transactions' = transactions
             /\ reqs'[r].pc = "patch-read"
                => /\ OpenFor(q)
                   /\ transactions'[q.id] =
                         [transactions[q.id] EXCEPT !.totalAmount = q.amount,
                                                    !.updatedAt = now']]_vars

C16_Witness ==
    \E r \in Slots :
        LET q == reqs[r] IN
        /\ q.pc = "done"
        /\ q.kind = "patch"
        /\ q.response.status = 404
        /\ q.id \in DOMAIN transactions
        /\ transactions[q.id].userId = q.user
        /\ transactions[q.id].status = "CLOSED"
        /\ transactions[q.id].totalAmount # q.amount

\* the sum of the entries of a list of numbers, whatever their order
RECURSIVE SumOver(_, _)
SumOver(values, idx) ==
    IF idx = {}
    THEN 0
    ELSE LET i == CHOOSE j \in idx : TRUE
         IN values[i] + SumOver(values, idx \ {i})

\* n is 100 * part / whole in percent, rounded to two decimals and held
\* in hundredths; 0 when whole is zero or absent
IsRound2Percent(n, part, whole) ==
    IF whole = NullAmount \/ whole = 0
    THEN n = 0
    ELSE /\ 2 * whole * n - 2 * 100 * 100 * part > -whole
         /\ 2 * whole * n - 2 * 100 * 100 * part <= whole

\* C17: a call of calculateBalances that has returned gave the sum of
\* the advance amounts, the sum of the delivery quantities, the agreed
\* total less the advances, the agreed quantity less the deliveries
\* (absent counted as zero) and both progress values rounded to two
\* decimals, zero when the agreed figure is zero or absent; and for
\* quantity 100 at unit price 10 with advances 200 and 150 and deliveries
\* 40 and 20 it gives 350, 60, 650, 40, 35.00 and 60.00.
C17_BalancesAreTheStatedFigures ==
    /\ \A r \in Slots :
          LET q == reqs[r] IN
          q.pc = "done"
          => LET paid == SumOver([i \in DOMAIN q.advances |->
                                    q.advances[i].amount],
                                 DOMAIN q.advances)
                 got == SumOver([i \in DOMAIN q.deliveries |->
                                   q.deliveries[i].quantity],
                                DOMAIN q.deliveries)
                 total == q.transaction.totalAmount
                 quantity == q.transaction.quantity
             IN /\ q.response.totalAdvances = paid
                /\ q.response.totalDelivered = got
                /\ q.response.moneyBalance =
                      (IF total = NullAmount THEN 0 ELSE total) - paid
                /\ q.response.productBalance =
                      (IF quantity = NullAmount THEN 0 ELSE quantity) - got
                /\ IsRound2Percent(q.response.moneyProgress, paid, total)
                /\ IsRound2Percent(q.response.productProgress, got, quantity)
    /\ calculateBalances(
          [totalAmount |-> CalculatedTotal(NullAmount, 100, 10),
           quantity |-> 100],
          <<[amount |-> 200], [amount |-> 150]>>,
          <<[quantity |-> 40], [quantity |-> 20]>>)
       = [totalAdvances |-> 350, totalDelivered |-> 60,
          moneyBalance |-> 650, productBalance |-> 40,
          moneyProgress |-> 3500, productProgress |-> 6000]

C17_Witness ==
    \E r \in Slots :
        /\ reqs[r].pc = "done"
        /\ reqs[r].transaction.totalAmount = 3
        /\ reqs[r].response.totalAdvances = 2
        /\ reqs[r].response.moneyBalance = 1
        /\ reqs[r].response.moneyProgress = 6667
        /\ reqs[r].transaction.quantity = NullAmount
        /\ reqs[r].response.totalDelivered = 3
        /\ reqs[r].response.productBalance = -3
        /\ reqs[r].response.productProgress = 0

C19_LastSyncIsLatestSuccess ==
    [][\A r \in Slots :
          (/\ reqs[r].pc = "status"
           /\ reqs'[r].pc = "done"
           /\ reqs'[r].response.status = 200)
          => LET u == reqs[r].user
                 mine == {i \in 1..Len(syncLogs) : syncLogs[i].userId = u}
                 won == {i \in mine : syncLogs[i].status = "success"}
                 history == reqs'[r].response.history
             IN /\ Len(history) = IF Cardinality(mine) < 20
                                  THEN Cardinality(mine) ELSE 20
                /\ \A k \in DOMAIN history :
                      /\ history[k].createdAt \in mine
                      /\ Cardinality({i \in mine : i > history[k].createdAt})
                            = k - 1
                /\ reqs'[r].response.lastSync =
                      IF won = {} THEN NullTime
                      ELSE CHOOSE i \in won : \A j \in won : j <= i]_vars

\* C20 as stated: a push that answers has applied the reconcile rule to
\* its expenses too; pushed to a server that holds no expense, every
\* expense of the batch is new, so it is stored and counted in
\* results.expenses.created.
C20_PushedExpensesAreStored ==
    \A r \in Slots :
        LET q == reqs[r] IN
        (/\ q.pc = "done"
         /\ q.kind = "push"
         /\ q.response # NULL
         /\ q.response.status = 200
         /\ q.nExpenses > 0)
        => /\ q.response.results.expenses.created = q.nExpenses
           /\ Cardinality(DOMAIN expenses) = q.nExpenses

\* C21 as stated: the step that creates an advance or a delivery leaves
\* the updatedAt of its transaction no earlier than the creation time of
\* the movement, so that a pull with an earlier checkpoint selects the
\* transaction.
C21_MovementTouchesTransaction ==
    [][\A r \in Slots :
          LET q == reqs[r] IN
          (/\ q.pc = "create"
           /\ reqs'[r].pc = "done"
           /\ reqs'[r].response.status = 201)
          => transactions'[q.id].updatedAt >= now']_vars

\* list is the beginning of longer, entry for entry
IsPrefix(list, longer) ==
    /\ Len(list) <= Len(longer)
    /\ \A i \in 1..Len(list) : longer[i] = list[i]

\* C22: every stored advance has amount > 0 and every stored delivery
\* quantity > 0, and no step changes or removes a stored advance or
\* delivery: each table only grows at its end.
C22_MovementsAreImmutable ==
    /\ [](/\ \A i \in 1..Len(advances) : advances[i].amount > 0
          /\ \A i \in 1..Len(deliveries) : deliveries[i].quantity > 0)
    /\ [][/\ IsPrefix(advances, advances')
          /\ IsPrefix(deliveries, deliveries')]_vars

C22_Witness ==
    /\ Len(advances) = 1
    /\ deliveries = <<>>
    /\ \E r \in Slots :
          /\ reqs[r].pc = "done"
          /\ reqs[r].kind = "delivery"
          /\ reqs[r].amount = 0
          /\ reqs[r].response.status = 400

\* C23: when the lookup of an add-advance or add-delivery request finds
\* no ACTIVE transaction of the caller, the answer is the same 404 with
\* the same message whether the id is not stored, the transaction is
\* another user's, or it is the caller's and CLOSED; the only other
\* answer, when storage refuses the lookup, does not depend on the
\* stored transactions either.
C23_MissingForeignClosedAlike ==
    [][\A r \in Slots :
          LET q == reqs[r] IN
          (/\ q.pc \in {"advance", "delivery"}
           /\ reqs'[r] # q
           /\ ~OpenFor(q))
          => /\ reqs'[r].pc = "done"
             /\ reqs'[r].response \in
                   {[status |-> 404,
                     body |-> "Transaction not found or cannot be modified"],
                    [status |-> 500,
                     body |-> "Failed to add " \o q.kind]}]_vars

C23_Witness ==
    \E r \in Slots :
        LET q == reqs[r] IN
        /\ q.pc = "done"
        /\ q.kind \in {"advance", "delivery"}
        /\ q.response.status = 404
        /\ q.id \in DOMAIN transactions
        /\ transactions[q.id].userId # q.user
        /\ transactions[q.id].status = "ACTIVE"

\* C24 as stated: the step that commits an advance or a delivery finds
\* its transaction still ACTIVE, whatever close request ran beside it.
C24_NoMovementAfterClose ==
    [][\A r \in Slots :
          LET q == reqs[r] IN
          (/\ q.pc = "create"
           /\ reqs'[r].pc = "done"
           /\ reqs'[r].response.status = 201)
          => transactions[q.id].status = "ACTIVE"]_vars

\* C25 as stated: every stored transaction has closedAt set exactly when
\* its status is CLOSED.
C25_ClosedAtIffClosed ==
    \A id \in DOMAIN transactions :
        transactions[id].status = "CLOSED"
        <=> transactions[id].closedAt # NullTime

\* C26 as stated: no step changes the quantity, the unitPrice or the
\* totalAmount of a stored transaction that is CLOSED.
C26_PushLeavesClosedFigures ==
    [][\A id \in DOMAIN transactions :
          transactions[id].status = "CLOSED"
          => /\ transactions'[id].quantity = transactions[id].quantity
             /\ transactions'[id].unitPrice = transactions[id].unitPrice
             /\ transactions'[id].totalAmount = transactions[id].totalAmount]_vars

\* C27 as stated: a detail read of a transaction that was created from
\* a quantity and a unit price, with no explicit total, reports
\* moneyBalance = current quantity * current unitPrice - totalAdvances.
C27_BalanceFollowsQuantityAndPrice ==
    [][\A r \in Slots :
          (/\ reqs[r].pc = "detail"
           /\ reqs'[r].pc = "done"
           /\ reqs'[r].response.status = 200)
          => LET row == transactions[reqs[r].id]
                 balances == reqs'[r].response.body.balances
             IN balances.moneyBalance =
                   row.quantity * row.unitPrice - balances.totalAdvances]_vars

\* created + updated + length(errors) of one collection
Accounted(results, coll) ==
    results[coll].created + results[coll].updated + Len(results[coll].errors)

\* C28: in a push, for providers and for transactions, each record that
\* the loop finishes adds one to exactly one of created, updated and
\* errors of its own collection, or to none of them exactly when it is
\* skipped as not newer than the stored record; so created + updated +
\* length(errors) never exceeds the number of records taken from the
\* collection.
C28_EachRecordCountedOnce ==
    /\ [](\A r \in Slots :
             (reqs[r].pc # "idle" /\ reqs[r].kind = "push")
             => \A coll \in {"providers", "transactions"} :
                   Accounted(reqs[r].results, coll) <= reqs[r].taken[coll])
    /\ [][\A r \in Slots :
             LET q == reqs[r]
                 coll == IF q.pc = "write" THEN q.coll ELSE q.pc
                 other == IF coll = "providers" THEN "transactions"
                                                ELSE "providers"
                 finished ==
                    \/ q.pc = "write"
                    \/ reqs'[r].pc # "write"
                 skipped ==
                    /\ q.pc = "write"
                    /\ q.existing # NULL
                    /\ ~ClientNewer(q.rec, q.existing)
                 grew(field) ==
                    IF field = "errors"
                    THEN Len(reqs'[r].results[coll].errors)
                            - Len(q.results[coll].errors)
                    ELSE reqs'[r].results[coll][field]
                            - q.results[coll][field]
             IN (/\ q.pc \in {"providers", "transactions", "write"}
                 /\ reqs'[r] # q
                 /\ reqs'[r].taken[coll] + (IF q.pc = "write" THEN 1 ELSE 0)
                       > q.taken[coll]
                 /\ finished)
                => /\ reqs'[r].results[other] = q.results[other]
                   /\ \A f \in {"created", "updated", "errors"} :
                         grew(f) \in {0, 1}
                   /\ grew("created") + grew("updated") + grew("errors")
                         = IF skipped THEN 0 ELSE 1]_vars

C28_Witness ==
    \E r \in Slots :
        /\ reqs[r].pc = "done"
        /\ reqs[r].kind = "push"
        /\ reqs[r].response # NULL
        /\ reqs[r].response.status = 200
        /\ reqs[r].taken = [providers |-> 1, transactions |-> 1]
        /\ reqs[r].results.providers.created = 1
        /\ Len(reqs[r].results.transactions.errors) = 1
        /\ Accounted(reqs[r].results, "providers") = 1
        /\ Accounted(reqs[r].results, "transactions") = 1

\* the rows of table that are not user's are in after as they are in
\* table
OthersKept(table, after, user) ==
    \A id \in DOMAIN table :
        table[id].userId # user
        => id \in DOMAIN after /\ after[id] = table[id]

\* C29: no step of a push changes or replaces a provider or a
\* transaction that belongs to another user than the one who pushes, and
\* a pushed record whose id is that of another user's row ends as an
\* entry of the pusher's error list, whatever updatedAt it carries.
C29_PushKeepsOtherUsersRows ==
    [][\A r \in Slots :
          (reqs'[r] # reqs[r] /\ reqs'[r].kind = "push")
          => /\ OthersKept(providers, providers', reqs'[r].user)
             /\ OthersKept(transactions, transactions', reqs'[r].user)
             /\ LET q == reqs[r] IN
                (/\ q.pc = "write"
                 /\ q.rec.id \in DOMAIN Table(q.coll)
                 /\ Table(q.coll)[q.rec.id].userId # q.user)
                => /\ \E msg \in {"Unique constraint failed", "Invalid Date",
                                   "unavailable"} :
                         reqs'[r].results[q.coll].errors
                           = Append(q.results[q.coll].errors,
                                    [id |-> q.rec.id, error |-> msg])
                   /\ reqs'[r].results[q.coll].created
                        = q.results[q.coll].created
                   /\ reqs'[r].results[q.coll].updated
                        = q.results[q.coll].updated]_vars

C29_Witness ==
    \E r \in Slots :
        /\ reqs[r].pc = "done"
        /\ reqs[r].kind = "push"
        /\ reqs[r].user = "u2"
        /\ reqs[r].plan.providers # <<>>
        /\ reqs[r].plan.providers[1].updatedAt = MaxTime
        /\ reqs[r].results.providers.errors
              = <<[id |-> "p1", error |-> "Unique constraint failed"]>>
        /\ providers["p1"].userId = "u1"

\* C30: whenever a step of a push creates or changes a provider or a
\* transaction of its caller, the query of a pull by the same user from
\* any syncTimestamp that another device already holds (the response of a
\* pull that ended before this step) returns the record, whatever
\* updatedAt the pushed record carried.
C30_PushedChangeIsPulledNext ==
    [][\A r \in Slots, d \in Slots :
          LET q == reqs[r]
              p == reqs[d]
              after == IF q.coll = "providers" THEN providers'
                                               ELSE transactions'
          IN
          (/\ q.pc = "write"
           /\ after # Table(q.coll)
           /\ d # r
           /\ p.pc = "done"
           /\ p.kind = "pull"
           /\ p.user = q.user
           /\ p.response # NULL
           /\ p.response.status = 200)
          => q.rec.id \in DOMAIN FindManyOwned(
                                    after, q.user,
                                    LastSyncDate(p.response.syncTimestamp))]_vars

====
